---- MODULE Spec2Model ----
(***************************************************************************)
(* Model of the dice-roll result engine of caith:                          *)
(*   src/src/rollresult.rs   RollHistory, RollResult, compute_total and    *)
(*                           the four arithmetic operators                 *)
(*   src/src/helpers/cde.rs  the element tables and compute_cde            *)
(*                                                                         *)
(* A RollResult is the record [total, history, reason, dirty].  An         *)
(* Option<String> is a sequence of length at most one.  Totals are i64 and *)
(* pool values u64 in the source; every value of this model stays far      *)
(* below 2^31, so no sum, product or cast wraps.                           *)
(***************************************************************************)
EXTENDS Integers, Sequences, FiniteSets, TLC

VARIABLES
    res,      \* the RollResult being operated on (`self`)
    call,     \* the operation that produced the current state, with its arguments
    applied,  \* history variable: modifier of the last compute_total that found res dirty
    grp       \* the operands and partial results of a three-operand combination

vars == <<res, call, applied, grp>>

----------------------------------------------------------------------------
(* Bounds of the model *)

\* largest number of dice of the rolls enumerated exhaustively
MaxDice == 2
\* largest number of entries a history is grown to
MaxHistory == 3

\* die faces of the rolls enumerated exhaustively
Faces == {1, 2, 3, 4, 5}
\* the rolls handed to add_history where whole lifecycles are explored
Rolls == { <<>>, <<2>>, <<1, 5>>, <<5, 1>> }
\* constants handed to with_total
Consts == {0, 1, 3}
\* thresholds handed to TargetFailure
Thresholds == {2, 4, 8}

\* the example pools of the documentation
ExamplePools == { <<1, 3, 6>>, <<1, 8, 9, 2, 5>> }

----------------------------------------------------------------------------
(* enum RollHistory *)

Roll(r) == [kind |-> "Roll", r |-> r]
Fudge(r) == [kind |-> "Fudge", r |-> r]
Value(v) == [kind |-> "Value", v |-> v]
Separator(s) == [kind |-> "Separator", s |-> s]

(* Option<String> *)
None == <<>>
Some(s) == <<s>>

(* enum TotalModifier (crate::parser), as compute_total matches on it *)
ModNone == [kind |-> "None"]
KeepHi(n) == [kind |-> "KeepHi", n |-> n]
KeepLo(n) == [kind |-> "KeepLo", n |-> n]
DropHi(n) == [kind |-> "DropHi", n |-> n]
DropLo(n) == [kind |-> "DropLo", n |-> n]
TargetFailure(t, f) == [kind |-> "TargetFailure", t |-> t, f |-> f]
ModFudge == [kind |-> "Fudge"]

----------------------------------------------------------------------------
(* Sequence helpers *)

RECURSIVE Sum(_)
Sum(s) == IF s = <<>> THEN 0 ELSE Head(s) + Sum(Tail(s))

RECURSIVE InsertAscending(_, _)
InsertAscending(s, x) ==
    IF s = <<>> THEN <<x>>
    ELSE IF x <= Head(s) THEN <<x>> \o s
    ELSE <<Head(s)>> \o InsertAscending(Tail(s), x)

\* a variant of the sort that leaves the pool in history order
left_unsorted(s) == s

\* flat.sort_unstable()
RECURSIVE sort_unstable(_)
sort_unstable(s) ==
    IF s = <<>> THEN <<>>
    ELSE InsertAscending(sort_unstable(Tail(s)), Head(s))

Reverse(s) == [i \in 1..Len(s) |-> s[Len(s) + 1 - i]]

\* a variant of the descending sort that sorts the wrong way round
sort_ascending_instead(s) == sort_unstable(s)

\* history.sort_unstable_by(|a, b| b.cmp(a))
sort_descending(s) == Reverse(sort_unstable(s))

----------------------------------------------------------------------------
(* impl RollResult *)

new == [total |-> 0, history |-> <<>>, reason |-> None, dirty |-> TRUE]

\* `total as u64` is the identity on the non-negative constants of the model
with_total(total) ==
    [total |-> total, history |-> <<Value(total)>>, reason |-> None, dirty |-> FALSE]

add_reason(self, reason) == [self EXCEPT !.reason = Some(reason)]

\* a variant of add_history that leaves the dirty flag as it was
add_history_keeping_flag(self, history, is_fudge) ==
    [self EXCEPT
        !.history = Append(self.history,
                           IF is_fudge THEN Fudge(sort_descending(history))
                                       ELSE Roll(sort_descending(history)))]

add_history(self, history, is_fudge) ==
    [self EXCEPT
        !.dirty = TRUE,
        !.history = Append(self.history,
                           IF is_fudge THEN Fudge(sort_descending(history))
                                       ELSE Roll(sort_descending(history)))]

\* the fold of compute_total: the pool, in history order
RECURSIVE Flatten(_)
Flatten(history) ==
    IF history = <<>> THEN <<>>
    ELSE LET n == Len(history)
             h == history[n]
             acc == Flatten(SubSeq(history, 1, n - 1))
         IN  CASE h.kind \in {"Roll", "Fudge"} -> acc \o h.r
               [] h.kind = "Value" -> Append(acc, h.v)
               [] h.kind = "Separator" -> acc

\* a variant of the slice whose DropHi drops from the low end
Slice_dropping_lowest(flat, modifier) ==
    CASE modifier.kind = "KeepHi" -> SubSeq(flat, Len(flat) - modifier.n + 1, Len(flat))
      [] modifier.kind = "KeepLo" -> SubSeq(flat, 1, modifier.n)
      [] modifier.kind = "DropHi" -> SubSeq(flat, modifier.n + 1, Len(flat))
      [] modifier.kind = "DropLo" -> SubSeq(flat, modifier.n + 1, Len(flat))
      [] OTHER -> flat

\* the slice compute_total selects from the sorted pool
Slice(flat, modifier) ==
    CASE modifier.kind = "KeepHi" -> SubSeq(flat, Len(flat) - modifier.n + 1, Len(flat))
      [] modifier.kind = "KeepLo" -> SubSeq(flat, 1, modifier.n)
      [] modifier.kind = "DropHi" -> SubSeq(flat, 1, Len(flat) - modifier.n)
      [] modifier.kind = "DropLo" -> SubSeq(flat, modifier.n + 1, Len(flat))
      [] OTHER -> flat

\* a variant of the TargetFailure step that tests the failure threshold first
TargetFailureStep_failure_first(acc, x, t, f) ==
    IF x <= f THEN acc - 1
    ELSE IF x >= t THEN acc + 1
    ELSE acc

\* one step of the TargetFailure fold
TargetFailureStep(acc, x, t, f) ==
    IF x >= t THEN acc + 1
    ELSE IF x <= f THEN acc - 1
    ELSE acc

\* a variant of the Fudge step whose blank band reaches 5
FudgeStep_wide_blank(acc, x) ==
    IF x <= 2 THEN acc - 1
    ELSE IF x <= 5 THEN acc
    ELSE acc + 1

\* one step of the Fudge fold
FudgeStep(acc, x) ==
    IF x <= 2 THEN acc - 1
    ELSE IF x <= 4 THEN acc
    ELSE acc + 1

RECURSIVE FoldTargetFailure(_, _, _, _)
FoldTargetFailure(acc, slice, t, f) ==
    IF slice = <<>> THEN acc
    ELSE FoldTargetFailure(TargetFailureStep(acc, Head(slice), t, f), Tail(slice), t, f)

RECURSIVE FoldFudge(_, _)
FoldFudge(acc, slice) ==
    IF slice = <<>> THEN acc
    ELSE FoldFudge(FudgeStep(acc, Head(slice)), Tail(slice))

\* the reduction of the slice to the total
Reduce(slice, modifier) ==
    CASE modifier.kind = "TargetFailure" ->
            FoldTargetFailure(0, slice, modifier.t, modifier.f)
      [] modifier.kind = "Fudge" -> FoldFudge(0, slice)
      [] OTHER -> Sum(slice)

\* the slice indices stay inside the pool; outside, compute_total panics
InBounds(self, modifier) ==
    modifier.kind \in {"KeepHi", "KeepLo", "DropHi", "DropLo"}
        => modifier.n <= Len(Flatten(self.history))

\* a variant of compute_total that recomputes a clean result too, whenever the
\* modifier fits the pool
compute_total_uncached(self, modifier) ==
    IF self.dirty \/ InBounds(self, modifier)
    THEN [self EXCEPT
            !.dirty = FALSE,
            !.total = Reduce(Slice(sort_unstable(Flatten(self.history)), modifier),
                             modifier)]
    ELSE self

\* compute_total: the RollResult it leaves; its return value is the total of that
compute_total(self, modifier) ==
    IF self.dirty
    THEN [self EXCEPT
            !.dirty = FALSE,
            !.total = Reduce(Slice(sort_unstable(Flatten(self.history)), modifier),
                             modifier)]
    ELSE self

----------------------------------------------------------------------------
(* impl Add / Sub / Mul / Div for RollResult *)

Abs(x) == IF x < 0 THEN -x ELSE x

\* i64 division truncates toward zero
TruncDiv(a, b) ==
    IF (a < 0) = (b < 0) THEN Abs(a) \div Abs(b) ELSE -(Abs(a) \div Abs(b))

\* a variant of add that falls back to the right operand's reason
add_inheriting_reason(self, rhs) ==
    [total |-> self.total + rhs.total,
     history |-> (IF rhs.history /= <<>> THEN Append(self.history, Separator("+"))
                                         ELSE self.history) \o rhs.history,
     reason |-> IF self.reason = None THEN rhs.reason ELSE self.reason,
     dirty |-> FALSE]

add(self, rhs) ==
    [total |-> self.total + rhs.total,
     history |-> (IF rhs.history /= <<>> THEN Append(self.history, Separator("+"))
                                         ELSE self.history) \o rhs.history,
     reason |-> self.reason,
     dirty |-> FALSE]

sub(self, rhs) ==
    [total |-> self.total - rhs.total,
     history |-> (IF rhs.history /= <<>> THEN Append(self.history, Separator("-"))
                                         ELSE self.history) \o rhs.history,
     reason |-> self.reason,
     dirty |-> FALSE]

mul(self, rhs) ==
    [total |-> self.total * rhs.total,
     history |-> (IF rhs.history /= <<>> THEN Append(self.history, Separator("*"))
                                         ELSE self.history) \o rhs.history,
     reason |-> self.reason,
     dirty |-> FALSE]

div(self, rhs) ==
    [total |-> TruncDiv(self.total, rhs.total),
     history |-> (IF rhs.history /= <<>> THEN Append(self.history, Separator("/"))
                                         ELSE self.history) \o rhs.history,
     reason |-> self.reason,
     dirty |-> FALSE]

Operators == {"+", "-", "*", "/"}

\* `self op rhs`, dispatched on the operator's symbol
Combine(op, self, rhs) ==
    CASE op = "+" -> add(self, rhs)
      [] op = "-" -> sub(self, rhs)
      [] op = "*" -> mul(self, rhs)
      [] op = "/" -> div(self, rhs)

\* a division by a zero total panics
Defined(op, self, rhs) == op = "/" => rhs.total /= 0

----------------------------------------------------------------------------
(* helpers/cde.rs: the element tables *)

Yin == "Yin"
Yang == "Yang"

(* enum Outcome *)
Success == [kind |-> "Success"]
Lucky == [kind |-> "Lucky"]
Ill == [kind |-> "Ill"]
Loksyu(side) == [kind |-> "Loksyu", side |-> side]
TinJi == [kind |-> "TinJi"]

\* the tables; face v is at index v (index v - 1 of the zero-based array)
FIRE ==
    << TinJi, Success, Loksyu(Yang), Ill, Lucky,
       TinJi, Success, Loksyu(Yin), Ill, Lucky >>

EARTH ==
    << Loksyu(Yang), Ill, Lucky, TinJi, Success,
       Loksyu(Yin), Ill, Lucky, TinJi, Success >>

METAL ==
    << Lucky, TinJi, Success, Loksyu(Yin), Ill,
       Lucky, TinJi, Success, Loksyu(Yang), Ill >>

WATER ==
    << Success, Loksyu(Yin), Ill, Lucky, TinJi,
       Success, Loksyu(Yang), Ill, Lucky, TinJi >>

WOOD ==
    << Ill, Lucky, TinJi, Success, Loksyu(Yang),
       Ill, Lucky, TinJi, Success, Loksyu(Yin) >>

(* enum Element: a variant name and the table it carries *)
Element(variant, table) == [variant |-> variant, table |-> table]

(* Result<T, E> *)
Ok(v) == [ok |-> TRUE, val |-> v]
Err(e) == [ok |-> FALSE, err |-> e]

\* A &str is the sequence of its characters, each a one-character string; the
\* accented letters are written "e_acute" and "E_acute".
UpperCase == << "A", "B", "C", "D", "E", "F", "G", "H", "I", "J", "K", "L", "M", "N", "O", "P", "Q", "R", "S", "T", "U", "V", "W", "X", "Y", "Z", "E_acute" >>
LowerCase == << "a", "b", "c", "d", "e", "f", "g", "h", "i", "j", "k", "l", "m", "n", "o", "p", "q", "r", "s", "t", "u", "v", "w", "x", "y", "z", "e_acute" >>

to_lowercase_char(c) ==
    IF \E i \in DOMAIN UpperCase : UpperCase[i] = c
    THEN LowerCase[CHOOSE i \in DOMAIN UpperCase : UpperCase[i] = c]
    ELSE c

\* s.to_lowercase()
to_lowercase(s) == [i \in DOMAIN s |-> to_lowercase_char(s[i])]

\* the match of try_from on the characters it is given
match_element(s) ==
    CASE s \in {<<"f", "e", "u">>, <<"f", "i", "r", "e">>} -> Ok(Element("Fire", FIRE))
      [] s \in {<<"e", "a", "r", "t", "h">>, <<"t", "e", "r", "r", "e">>} -> Ok(Element("Earth", EARTH))
      [] s \in {<<"m", "e", "t", "a", "l">>, <<"m", "e_acute", "t", "a", "l">>} -> Ok(Element("Metal", METAL))
      [] s \in {<<"e", "a", "u">>, <<"w", "a", "t", "e", "r">>} -> Ok(Element("Water", WATER))
      [] s \in {<<"b", "o", "i", "s">>, <<"w", "o", "o", "d">>} -> Ok(Element("Wood", WOOD))
      [] OTHER -> Err("Element must be one of fire, earth, metal, fire or wood")

\* impl TryFrom<&str> for Element
try_from(s) == match_element(to_lowercase(s))

\* a variant of the label arrays that names the generating element before the
\* generated one
ElementLabels_generating_first(variant) ==
    CASE variant = "Fire" -> <<"fire", "wood", "earth", "metal", "water">>
      [] variant = "Earth" -> <<"earth", "fire", "metal", "water", "wood">>
      [] variant = "Metal" -> <<"metal", "earth", "water", "wood", "fire">>
      [] variant = "Water" -> <<"water", "metal", "wood", "fire", "earth">>
      [] variant = "Wood" -> <<"wood", "water", "fire", "earth", "metal">>

\* the display labels compute_cde attaches to each element (glyphs left out):
\* the element, then the generated, generating, dominated and dominating ones
ElementLabels(variant) ==
    CASE variant = "Fire" -> <<"fire", "earth", "wood", "metal", "water">>
      [] variant = "Earth" -> <<"earth", "metal", "fire", "water", "wood">>
      [] variant = "Metal" -> <<"metal", "water", "earth", "wood", "fire">>
      [] variant = "Water" -> <<"water", "wood", "metal", "fire", "earth">>
      [] variant = "Wood" -> <<"wood", "fire", "water", "earth", "metal">>

\* CdeResult::default()
CdeDefault ==
    [success |-> 0, lucky |-> 0, ill |-> 0, loksyu |-> <<0, 0>>, tin_ji |-> 0,
     history |-> None, elements |-> <<"", "", "", "", "">>]

\* a variant of the tally step that credits Loksyu dice to the wrong side
CdeStep_sides_swapped(acc, v, mapping) ==
    LET o == mapping[(v - 1) + 1]
    IN  CASE o.kind = "Success" -> [acc EXCEPT !.success = @ + 1]
          [] o.kind = "Lucky" -> [acc EXCEPT !.lucky = @ + 1]
          [] o.kind = "Ill" -> [acc EXCEPT !.ill = @ + 1]
          [] o.kind = "Loksyu" /\ o.side = Yin -> [acc EXCEPT !.loksyu[2] = @ + 1]
          [] o.kind = "Loksyu" /\ o.side = Yang -> [acc EXCEPT !.loksyu[1] = @ + 1]
          [] o.kind = "TinJi" -> [acc EXCEPT !.tin_ji = @ + 1]

\* one step of the tally fold: the die of face v under the table `mapping`
CdeStep(acc, v, mapping) ==
    LET o == mapping[(v - 1) + 1]
    IN  CASE o.kind = "Success" -> [acc EXCEPT !.success = @ + 1]
          [] o.kind = "Lucky" -> [acc EXCEPT !.lucky = @ + 1]
          [] o.kind = "Ill" -> [acc EXCEPT !.ill = @ + 1]
          [] o.kind = "Loksyu" /\ o.side = Yin -> [acc EXCEPT !.loksyu[1] = @ + 1]
          [] o.kind = "Loksyu" /\ o.side = Yang -> [acc EXCEPT !.loksyu[2] = @ + 1]
          [] o.kind = "TinJi" -> [acc EXCEPT !.tin_ji = @ + 1]

RECURSIVE CdeFold(_, _, _)
CdeFold(acc, dice, mapping) ==
    IF dice = <<>> THEN acc
    ELSE CdeFold(CdeStep(acc, Head(dice), mapping), Tail(dice), mapping)

\* the table lookup stays inside the table; outside, compute_cde panics
Indexable(res_, element) ==
    (/\ Len(res_.history) = 1
     /\ res_.history[1].kind = "Roll"
     /\ try_from(element).ok) =>
        \A i \in DOMAIN res_.history[1].r :
            res_.history[1].r[i] \in DOMAIN try_from(element).val.table

\* a variant of compute_cde that takes the dice of a Fudge entry too
compute_cde_any_dice(res_, element) ==
    LET history == res_.history
    IN  IF Len(history) /= 1 THEN Err("Should have only one roll")
        ELSE IF history[1].kind \notin {"Roll", "Fudge"}
             THEN Err("RollHistory must be a Roll variant")
        ELSE LET mapping == try_from(element)
             IN  IF ~mapping.ok THEN Err(mapping.err)
                 ELSE LET result == CdeFold(CdeDefault, history[1].r, mapping.val.table)
                      IN  Ok([result EXCEPT
                                !.history = Some(history[1]),
                                !.elements = ElementLabels(mapping.val.variant)])

\* compute_cde.  as_single() is defined outside these sources; the RollResult of
\* rollresult.rs is the single-roll form, for which it yields the result itself.
compute_cde(res_, element) ==
    LET history == res_.history
    IN  IF Len(history) /= 1 THEN Err("Should have only one roll")
        ELSE IF history[1].kind /= "Roll" THEN Err("RollHistory must be a Roll variant")
        ELSE LET mapping == try_from(element)
             IN  IF ~mapping.ok THEN Err(mapping.err)
                 ELSE LET result == CdeFold(CdeDefault, history[1].r, mapping.val.table)
                      IN  Ok([result EXCEPT
                                !.history = Some(history[1]),
                                !.elements = ElementLabels(mapping.val.variant)])

----------------------------------------------------------------------------
(* Inputs of the operations *)

\* all sequences over S of length at most n
RECURSIVE SeqsUpTo(_, _)
SeqsUpTo(S, n) ==
    IF n = 0 THEN {<<>>}
    ELSE LET shorter == SeqsUpTo(S, n - 1)
         IN  shorter \cup {Append(s, x) : s \in {t \in shorter : Len(t) = n - 1}, x \in S}

\* every roll of at most MaxDice dice, and the documented pools
DiceInputs == SeqsUpTo(Faces, MaxDice) \cup ExamplePools

\* every modifier whose n is at most one past the pool size of self
Modifiers(self) ==
    LET ns == 0..(Len(Flatten(self.history)) + 1)
    IN  {ModNone, ModFudge}
        \cup {KeepHi(n) : n \in ns} \cup {KeepLo(n) : n \in ns}
        \cup {DropHi(n) : n \in ns} \cup {DropLo(n) : n \in ns}
        \cup {TargetFailure(t, f) : t \in Thresholds, f \in Thresholds}

\* the modifiers handed to compute_total where whole lifecycles are explored
SomeModifiers == {ModNone, KeepHi(1), DropLo(1), TargetFailure(4, 2), ModFudge}

\* right-hand operands: an empty result, constants with and without a reason,
\* and a computed roll whose total is negative
Operands ==
    { new,
      with_total(4),
      add_reason(with_total(3), "rhs"),
      compute_total(add_history(new, <<1, 1>>, FALSE), TargetFailure(4, 2)) }

----------------------------------------------------------------------------
(* The operations on self *)

NoGrp == [stage |-> "none"]

Call_new ==
    /\ res' = new
    /\ call' = [op |-> "new"]

Call_with_total(total) ==
    /\ res' = with_total(total)
    /\ call' = [op |-> "with_total", total |-> total]

Call_add_reason(reason) ==
    /\ res' = add_reason(res, reason)
    /\ call' = [op |-> "add_reason", reason |-> reason]

Call_add_history(history, is_fudge) ==
    /\ res' = add_history(res, history, is_fudge)
    /\ call' = [op |-> "add_history", history |-> history, is_fudge |-> is_fudge]

Call_compute_total(modifier) ==
    /\ res.dirty => InBounds(res, modifier)
    /\ res' = compute_total(res, modifier)
    /\ call' = [op |-> "compute_total", modifier |-> modifier,
                was_dirty |-> res.dirty, ret |-> res'.total]

Call_operator(op, rhs) ==
    /\ Defined(op, res, rhs)
    /\ Len(Combine(op, res, rhs).history) <= MaxHistory
    /\ res' = Combine(op, res, rhs)
    /\ call' = [op |-> op, rhs |-> rhs]

----------------------------------------------------------------------------
(* Spec: every operation of RollResult, in any order *)

Init ==
    /\ res = new
    /\ call = [op |-> "new"]
    /\ applied = ModNone
    /\ grp = NoGrp

New == Call_new /\ UNCHANGED <<applied, grp>>

WithTotal == \E c \in Consts : Call_with_total(c) /\ UNCHANGED <<applied, grp>>

AddReason == Call_add_reason("lhs") /\ UNCHANGED <<applied, grp>>

AddHistory ==
    /\ Len(res.history) < MaxHistory
    /\ \E h \in Rolls, f \in BOOLEAN :
        Call_add_history(h, f) /\ UNCHANGED <<applied, grp>>

ComputeTotal ==
    \E m \in SomeModifiers : Call_compute_total(m) /\ UNCHANGED <<applied, grp>>

Operator ==
    \E op \in Operators, rhs \in Operands :
        Call_operator(op, rhs) /\ UNCHANGED <<applied, grp>>

Next ==
    \/ New
    \/ WithTotal
    \/ AddReason
    \/ AddHistory
    \/ ComputeTotal
    \/ Operator

Spec == Init /\ [][Next]_vars

----------------------------------------------------------------------------
(* SpecTotal: compute_total over every pool.  A run starts from a result built
   by the constructors and operators, extends it by at most one roll drawn from
   DiceInputs, and calls compute_total with every modifier, any number of times *)

Bases ==
    { new,
      add_reason(with_total(0), "lhs"),
      with_total(3),
      add(with_total(3), with_total(4)),
      sub(with_total(1),
          compute_total(add_history(new, <<1, 1>>, FALSE), TargetFailure(4, 2))) }

InitTotal ==
    /\ res \in Bases
    /\ call = [op |-> "base"]
    /\ applied = ModNone
    /\ grp = NoGrp

TotalAddHistory ==
    /\ call.op = "base"
    /\ \E h \in DiceInputs, f \in BOOLEAN :
        Call_add_history(h, f) /\ UNCHANGED <<applied, grp>>

TotalComputeTotal ==
    \E m \in Modifiers(res) : Call_compute_total(m) /\ UNCHANGED <<applied, grp>>

NextTotal ==
    \/ TotalAddHistory
    \/ TotalComputeTotal

SpecTotal == InitTotal /\ [][NextTotal]_vars

----------------------------------------------------------------------------
(* SpecLifecycle: new, with_total, add_history and compute_total in any order,
   without the operators; applied records the modifier of the last
   compute_total that found the result dirty *)

LifeNew == Call_new /\ applied' = ModNone /\ UNCHANGED grp

LifeWithTotal ==
    \E c \in Consts : Call_with_total(c) /\ applied' = ModNone /\ UNCHANGED grp

LifeAddHistory ==
    /\ Len(res.history) < MaxHistory
    /\ \E h \in Rolls, f \in BOOLEAN :
        Call_add_history(h, f) /\ UNCHANGED <<applied, grp>>

LifeComputeTotal ==
    \E m \in SomeModifiers :
        /\ Call_compute_total(m)
        /\ applied' = IF res.dirty THEN m ELSE applied
        /\ UNCHANGED grp

NextLifecycle ==
    \/ LifeNew
    \/ LifeWithTotal
    \/ LifeAddHistory
    \/ LifeComputeTotal

SpecLifecycle == Init /\ [][NextLifecycle]_vars

----------------------------------------------------------------------------
(* SpecCde: compute_cde on single rolls of ten-sided dice, on constants, on
   empty results and on results combined by an operator *)

\* the faces the tables cover
TableFaces == DOMAIN FIRE

\* every roll of at most MaxDice ten-sided dice, and the pool of test_cde
CdeDice == SeqsUpTo(TableFaces, MaxDice) \cup { <<1, 2, 3, 4, 5, 7, 10, 5>> }

\* element names: recognized ones in several spellings, and unrecognized ones
ElementNames ==
    { <<"f", "i", "r", "e">>,
      <<"F", "I", "R", "E">>,
      <<"F", "e", "u">>,
      <<"e", "a", "r", "t", "h">>,
      <<"T", "e", "r", "r", "e">>,
      <<"m", "e", "t", "a", "l">>,
      <<"m", "e_acute", "t", "a", "l">>,
      <<"M", "E_acute", "T", "A", "L">>,
      <<"e", "a", "u">>,
      <<"W", "a", "T", "e", "R">>,
      <<"b", "o", "i", "s">>,
      <<"w", "o", "o", "d">>,
      <<>>,
      <<"a", "i", "r">>,
      <<"f", "i", "r">>,
      <<"f", "i", "r", "e", "s">>,
      <<"m", "e", "t", "l">> }

CdeOperands ==
    { with_total(4),
      compute_total(add_history(new, <<7>>, FALSE), ModNone) }

Call_compute_cde(element) ==
    /\ Indexable(res, element)
    /\ call' = [op |-> "compute_cde", res |-> res, element |-> element,
                ret |-> compute_cde(res, element)]
    /\ UNCHANGED res

CdeNew == Call_new /\ UNCHANGED <<applied, grp>>

CdeWithTotal == \E c \in Consts : Call_with_total(c) /\ UNCHANGED <<applied, grp>>

CdeAddHistory ==
    /\ res.history = <<>>
    /\ \E h \in CdeDice, f \in BOOLEAN :
        Call_add_history(h, f) /\ UNCHANGED <<applied, grp>>

CdeComputeTotal == Call_compute_total(ModNone) /\ UNCHANGED <<applied, grp>>

CdeOperator ==
    \E op \in Operators, rhs \in CdeOperands :
        Call_operator(op, rhs) /\ UNCHANGED <<applied, grp>>

ComputeCde == \E e \in ElementNames : Call_compute_cde(e) /\ UNCHANGED <<applied, grp>>

NextCde ==
    \/ CdeNew
    \/ CdeWithTotal
    \/ CdeAddHistory
    \/ CdeComputeTotal
    \/ CdeOperator
    \/ ComputeCde

SpecCde == Init /\ [][NextCde]_vars

----------------------------------------------------------------------------
(* SpecAssoc: three operands a, b, c combined by one operator in both
   groupings, (a op b) op c and then a op (b op c), one operator call a step *)

InitAssoc ==
    /\ res = new
    /\ call = [op |-> "new"]
    /\ applied = ModNone
    /\ \E op \in Operators, a \in Operands, b \in Operands, c \in Operands :
        grp = [stage |-> "start", op |-> op, a |-> a, b |-> b, c |-> c]

\* ab = a op b
LeftInner ==
    /\ grp.stage = "start"
    /\ Defined(grp.op, grp.a, grp.b)
    /\ grp' = [stage |-> "ab", op |-> grp.op, a |-> grp.a, b |-> grp.b, c |-> grp.c,
               ab |-> Combine(grp.op, grp.a, grp.b)]
    /\ UNCHANGED <<res, call, applied>>

\* left = ab op c
LeftOuter ==
    /\ grp.stage = "ab"
    /\ Defined(grp.op, grp.ab, grp.c)
    /\ grp' = [stage |-> "left", op |-> grp.op, a |-> grp.a, b |-> grp.b, c |-> grp.c,
               left |-> Combine(grp.op, grp.ab, grp.c)]
    /\ UNCHANGED <<res, call, applied>>

\* bc = b op c
RightInner ==
    /\ grp.stage = "left"
    /\ Defined(grp.op, grp.b, grp.c)
    /\ grp' = [stage |-> "bc", op |-> grp.op, a |-> grp.a, b |-> grp.b, c |-> grp.c,
               left |-> grp.left, bc |-> Combine(grp.op, grp.b, grp.c)]
    /\ UNCHANGED <<res, call, applied>>

\* right = a op bc
RightOuter ==
    /\ grp.stage = "bc"
    /\ Defined(grp.op, grp.a, grp.bc)
    /\ grp' = [stage |-> "done", op |-> grp.op, a |-> grp.a, b |-> grp.b, c |-> grp.c,
               left |-> grp.left, right |-> Combine(grp.op, grp.a, grp.bc)]
    /\ UNCHANGED <<res, call, applied>>

NextAssoc ==
    \/ LeftInner
    \/ LeftOuter
    \/ RightInner
    \/ RightOuter

SpecAssoc == InitAssoc /\ [][NextAssoc]_vars

----------------------------------------------------------------------------
(* Reference definitions the properties are stated with *)

\* the quotient of a by b rounded toward zero: the remainder is smaller than b
\* in magnitude and, unless zero, has the sign of a
QuotientTowardZero(a, b) ==
    CHOOSE q \in -Abs(a)..Abs(a) :
        LET r == a - q * b
        IN  Abs(r) < Abs(b) /\ (r = 0 \/ (r < 0) = (a < 0))

\* the pool of a history: the values of its Roll and Fudge entries and of its
\* Value entries, Separator entries ignored
RECURSIVE PoolOf(_)
PoolOf(history) ==
    IF history = <<>> THEN <<>>
    ELSE LET h == Head(history)
         IN  (CASE h.kind \in {"Roll", "Fudge"} -> h.r
                [] h.kind = "Value" -> <<h.v>>
                [] h.kind = "Separator" -> <<>>) \o PoolOf(Tail(history))

Range(s) == {s[i] : i \in DOMAIN s}

\* how many values of the pool satisfy P
HowMany(pool, P(_)) == Cardinality({i \in DOMAIN pool : P(pool[i])})

RECURSIVE WeightedSum(_, _)
WeightedSum(pool, values) ==
    IF values = {} THEN 0
    ELSE LET v == CHOOSE x \in values : TRUE
         IN  v * HowMany(pool, LAMBDA y : y = v) + WeightedSum(pool, values \ {v})

\* the sum of the pool
PoolSum(pool) == WeightedSum(pool, Range(pool))

\* the pool without one occurrence of x
RemoveOne(pool, x) ==
    LET i == CHOOSE j \in DOMAIN pool : pool[j] = x
    IN  SubSeq(pool, 1, i - 1) \o SubSeq(pool, i + 1, Len(pool))

Largest(pool) == CHOOSE x \in Range(pool) : \A y \in Range(pool) : y <= x
Smallest(pool) == CHOOSE x \in Range(pool) : \A y \in Range(pool) : x <= y

\* the sum of the n largest values of the pool
RECURSIVE SumLargest(_, _)
SumLargest(pool, n) ==
    IF n = 0 THEN 0
    ELSE Largest(pool) + SumLargest(RemoveOne(pool, Largest(pool)), n - 1)

\* the sum of the n smallest values of the pool
RECURSIVE SumSmallest(_, _)
SumSmallest(pool, n) ==
    IF n = 0 THEN 0
    ELSE Smallest(pool) + SumSmallest(RemoveOne(pool, Smallest(pool)), n - 1)

\* the total the documentation gives for a keep/drop/plain modifier
ExpectedSum(pool, modifier) ==
    CASE modifier.kind = "None" -> PoolSum(pool)
      [] modifier.kind = "KeepHi" -> SumLargest(pool, modifier.n)
      [] modifier.kind = "KeepLo" -> SumSmallest(pool, modifier.n)
      [] modifier.kind = "DropHi" -> PoolSum(pool) - SumLargest(pool, modifier.n)
      [] modifier.kind = "DropLo" -> PoolSum(pool) - SumSmallest(pool, modifier.n)

\* self as it was before its total was computed
Stale(self) == [self EXCEPT !.dirty = TRUE]

\* the total the documentation gives for any modifier
ExpectedTotal(pool, modifier) ==
    CASE modifier.kind = "TargetFailure" ->
            HowMany(pool, LAMBDA x : x >= modifier.t)
            - HowMany(pool, LAMBDA x : x < modifier.t /\ x <= modifier.f)
      [] modifier.kind = "Fudge" ->
            HowMany(pool, LAMBDA x : x >= 5) - HowMany(pool, LAMBDA x : x <= 2)
      [] OTHER -> ExpectedSum(pool, modifier)

\* the element an element name of ElementNames denotes when case is ignored,
\* spelling by spelling, or "none"
Denotes(name) ==
    CASE name \in {<<"f", "i", "r", "e">>, <<"F", "I", "R", "E">>, <<"F", "e", "u">>} -> "Fire"
      [] name \in {<<"e", "a", "r", "t", "h">>, <<"T", "e", "r", "r", "e">>} -> "Earth"
      [] name \in {<<"m", "e", "t", "a", "l">>, <<"m", "e_acute", "t", "a", "l">>, <<"M", "E_acute", "T", "A", "L">>} -> "Metal"
      [] name \in {<<"e", "a", "u">>, <<"W", "a", "T", "e", "R">>} -> "Water"
      [] name \in {<<"b", "o", "i", "s">>, <<"w", "o", "o", "d">>} -> "Wood"
      [] OTHER -> "none"

TableOf(variant) ==
    CASE variant = "Fire" -> FIRE
      [] variant = "Earth" -> EARTH
      [] variant = "Metal" -> METAL
      [] variant = "Water" -> WATER
      [] variant = "Wood" -> WOOD

\* the counters of a CdeResult: success, lucky, ill, (yin, yang), tin_ji
Counters(r) == <<r.success, r.lucky, r.ill, r.loksyu, r.tin_ji>>

\* the counters test_cde expects for the pool 1, 2, 3, 4, 5, 7, 10, 5
TestCounters(variant) ==
    CASE variant = "Fire" -> <<2, 3, 1, <<0, 1>>, 1>>
      [] variant = "Earth" -> <<3, 1, 2, <<0, 1>>, 1>>
      [] variant = "Metal" -> <<1, 1, 3, <<1, 0>>, 2>>
      [] variant = "Water" -> <<1, 1, 1, <<1, 1>>, 3>>
      [] variant = "Wood" -> <<1, 2, 1, <<1, 2>>, 1>>

\* the history holds exactly one entry, a Roll
SingleRoll(history) == Len(history) = 1 /\ history[1].kind = "Roll"

Arith(op, x, y) ==
    CASE op = "+" -> x + y
      [] op = "-" -> x - y
      [] op = "*" -> x * y
      [] op = "/" -> QuotientTowardZero(x, y)

----------------------------------------------------------------------------
(* C1 *)

\* C1: every step `self op rhs` leaves total = self.total op rhs.total (division
\* rounding toward zero), dirty = false, reason = self.reason whatever rhs.reason
\* is, and history = self.history, then Separator(op) and rhs.history when
\* rhs.history is non-empty, else exactly self.history; and
\* with_total(3) + with_total(4) has total 7 and history
\* Value(3), Separator("+"), Value(4).
C1_Combination ==
    [][call'.op \in Operators =>
        LET a == res
            b == call'.rhs
            op == call'.op
        IN  /\ res'.total = Arith(op, a.total, b.total)
            /\ res'.dirty = FALSE
            /\ res'.reason = a.reason
            /\ res'.history = IF b.history /= <<>>
                              THEN a.history \o <<Separator(op)>> \o b.history
                              ELSE a.history
            /\ (a = with_total(3) /\ b = with_total(4) /\ op = "+") =>
                    /\ res'.total = 7
                    /\ res'.history = <<Value(3), Separator("+"), Value(4)>>]_vars

\* with_total(3) + with_total(4) has been computed
C1_Witness ==
    /\ call.op = "+"
    /\ call.rhs = with_total(4)
    /\ res.history = <<Value(3), Separator("+"), Value(4)>>
    /\ res.reason = None
    /\ res.total = 7

----------------------------------------------------------------------------
(* C2 *)

\* C2: compute_total on a dirty result, with n at most the pool size, clears
\* dirty and stores and returns the plain sum of the pool for None, the sum of
\* the n largest for KeepHi(n), of the n smallest for KeepLo(n), of all but the
\* n largest for DropHi(n), of all but the n smallest for DropLo(n); and on
\* every dirty result KeepHi(n) gives at least what KeepLo(n) gives.
C2_KeepDrop ==
    /\ [][(/\ call'.op = "compute_total"
           /\ res.dirty
           /\ call'.modifier.kind \in {"None", "KeepHi", "KeepLo", "DropHi", "DropLo"}) =>
            /\ res'.dirty = FALSE
            /\ res'.total = ExpectedSum(PoolOf(res.history), call'.modifier)
            /\ call'.ret = res'.total]_vars
    /\ [](res.dirty =>
            \A n \in 0..Len(PoolOf(res.history)) :
                compute_total(res, KeepHi(n)).total >= compute_total(res, KeepLo(n)).total)

\* KeepHi(2) has been computed on a result made by an operator and then
\* extended by a roll, over a pool of two constants and two dice
C2_Witness ==
    /\ call.op = "compute_total"
    /\ call.was_dirty
    /\ call.modifier = KeepHi(2)
    /\ res.history = <<Value(3), Separator("+"), Value(4), Roll(<<5, 2>>)>>
    /\ res.total = 9
    /\ call.ret = 9

----------------------------------------------------------------------------
(* C3 *)

\* C3: compute_total on a result that is not dirty returns the stored total and
\* changes no field, whatever the modifier; so a compute_total that follows a
\* compute_total returns what that one returned.
C3_CachedTotal ==
    [][call'.op = "compute_total" =>
        /\ ~res.dirty => (res' = res /\ call'.ret = res.total)
        /\ call.op = "compute_total" => call'.ret = call.ret]_vars

\* a second compute_total has run on a clean result with a modifier that would
\* have given another total
C3_Witness ==
    /\ call.op = "compute_total"
    /\ ~call.was_dirty
    /\ res.history /= <<>>
    /\ compute_total(Stale(res), call.modifier).total /= res.total
    /\ call.ret = res.total

----------------------------------------------------------------------------
(* C4 *)

\* C4: compute_total(TargetFailure(t, f)) on a dirty result sets total to the
\* number of pool values >= t minus the number of pool values that are < t and
\* <= f, so a value that is both >= t and <= f counts +1; TargetFailure(8, 2)
\* over the pool 1, 8, 9, 2, 5 gives 0.
C4_TargetFailure ==
    (/\ call.op = "compute_total"
     /\ call.was_dirty
     /\ call.modifier.kind = "TargetFailure") =>
        LET pool == PoolOf(res.history)
            t == call.modifier.t
            f == call.modifier.f
        IN  /\ res.total = HowMany(pool, LAMBDA x : x >= t)
                           - HowMany(pool, LAMBDA x : x < t /\ x <= f)
            /\ call.ret = res.total
            /\ (res.history = <<Roll(<<9, 8, 5, 2, 1>>)>> /\ t = 8 /\ f = 2)
                    => res.total = 0

\* TargetFailure(8, 2) has been computed over the rolled pool 1, 8, 9, 2, 5
C4_Witness ==
    /\ call.op = "compute_total"
    /\ call.was_dirty
    /\ call.modifier = TargetFailure(8, 2)
    /\ res.history = <<Roll(<<9, 8, 5, 2, 1>>)>>
    /\ res.total = 0

----------------------------------------------------------------------------
(* C7 *)

\* C7: for every n up to the pool size, the total compute_total(DropHi(n))
\* leaves on a dirty result, plus the total KeepHi(n) gives on the same dirty
\* result (the sum of the n largest values), is the total None gives on it.
C7_DropHiComplement ==
    (/\ call.op = "compute_total"
     /\ call.was_dirty
     /\ call.modifier.kind = "DropHi") =>
        /\ compute_total(Stale(res), KeepHi(call.modifier.n)).total
                = SumLargest(PoolOf(res.history), call.modifier.n)
        /\ res.total + compute_total(Stale(res), KeepHi(call.modifier.n)).total
                = compute_total(Stale(res), ModNone).total

\* DropHi(2) has been computed over a pool of five distinct values
C7_Witness ==
    /\ call.op = "compute_total"
    /\ call.was_dirty
    /\ call.modifier = DropHi(2)
    /\ PoolOf(res.history) = <<9, 8, 5, 2, 1>>
    /\ res.total = 8

----------------------------------------------------------------------------
(* C8 *)

\* C8: compute_total(Fudge) on a dirty result sets total to the number of pool
\* values >= 5 minus the number of pool values <= 2, over Roll, Fudge and Value
\* entries alike; the pool 1, 3, 6 gives 0.
C8_Fudge ==
    (/\ call.op = "compute_total"
     /\ call.was_dirty
     /\ call.modifier.kind = "Fudge") =>
        LET pool == PoolOf(res.history)
        IN  /\ res.total = HowMany(pool, LAMBDA x : x >= 5)
                           - HowMany(pool, LAMBDA x : x <= 2)
            /\ call.ret = res.total
            /\ PoolOf(res.history) = <<6, 3, 1>> => res.total = 0

\* Fudge has been computed over the fudge roll 1, 3, 6
C8_Witness ==
    /\ call.op = "compute_total"
    /\ call.was_dirty
    /\ call.modifier = ModFudge
    /\ res.history = <<Fudge(<<6, 3, 1>>)>>
    /\ res.total = 0

----------------------------------------------------------------------------
(* C9 *)

\* C9: in every state reached by new, with_total, add_history and
\* compute_total, a result that is not dirty holds the total its current
\* history gives under the modifier of the last compute_total that found it
\* dirty (the plain sum when none did), and every add_history leaves it dirty.
C9_CleanTotalIsCurrent ==
    /\ ~res.dirty => res.total = ExpectedTotal(PoolOf(res.history), applied)
    /\ call.op = "add_history" => res.dirty

\* a roll was added to a constant and KeepHi(1) computed over both
C9_Witness ==
    /\ ~res.dirty
    /\ call.op = "compute_total"
    /\ call.was_dirty
    /\ applied = KeepHi(1)
    /\ res.history = <<Value(3), Roll(<<5, 1>>), Fudge(<<2>>)>>
    /\ res.total = 5

----------------------------------------------------------------------------
(* C5 *)

\* C5: on a history of exactly one Roll entry with faces in 1..10 and a
\* recognized element name, compute_cde succeeds and each counter is the number
\* of dice whose face has that category in the element's table, so the six
\* counters add up to the number of dice; for the pool 1, 2, 3, 4, 5, 7, 10, 5
\* the counters are those test_cde expects for each of the five elements.
C5_CdeCounters ==
    (/\ call.op = "compute_cde"
     /\ SingleRoll(call.res.history)
     /\ Range(call.res.history[1].r) \subseteq 1..10
     /\ Denotes(call.element) /= "none") =>
        LET dice == call.res.history[1].r
            table == TableOf(Denotes(call.element))
            Dice(o) == HowMany(dice, LAMBDA v : table[v] = o)
        IN  /\ call.ret.ok
            /\ call.ret.val.success = Dice(Success)
            /\ call.ret.val.lucky = Dice(Lucky)
            /\ call.ret.val.ill = Dice(Ill)
            /\ call.ret.val.loksyu = <<Dice(Loksyu(Yin)), Dice(Loksyu(Yang))>>
            /\ call.ret.val.tin_ji = Dice(TinJi)
            /\ call.ret.val.success + call.ret.val.lucky + call.ret.val.ill
                + call.ret.val.loksyu[1] + call.ret.val.loksyu[2]
                + call.ret.val.tin_ji = Len(dice)
            /\ dice = <<10, 7, 5, 5, 4, 3, 2, 1>> =>
                    Counters(call.ret.val) = TestCounters(Denotes(call.element))

\* the pool of test_cde has been interpreted under wood, where both Loksyu
\* sides are hit
C5_Witness ==
    /\ call.op = "compute_cde"
    /\ call.res.history = <<Roll(<<10, 7, 5, 5, 4, 3, 2, 1>>)>>
    /\ Denotes(call.element) = "Wood"
    /\ call.ret.ok
    /\ Counters(call.ret.val) = <<1, 2, 1, <<1, 2>>, 1>>

----------------------------------------------------------------------------
(* C6 *)

\* C6: compute_cde returns an error and no CdeResult, and leaves the RollResult
\* as it was, when the history does not hold exactly one entry, when its single
\* entry is not a Roll, and when the element name is not recognized; the two
\* shape errors are reported whatever the element name is.
C6_CdeErrors ==
    call.op = "compute_cde" =>
        LET history == call.res.history
        IN  /\ res = call.res
            /\ Len(history) /= 1 =>
                    call.ret = [ok |-> FALSE, err |-> "Should have only one roll"]
            /\ (Len(history) = 1 /\ history[1].kind /= "Roll") =>
                    call.ret = [ok |-> FALSE, err |-> "RollHistory must be a Roll variant"]
            /\ Denotes(call.element) = "none" =>
                    (~call.ret.ok /\ DOMAIN call.ret = {"ok", "err"})

\* the composite roll 2d10 + 1d10 has been interpreted under an unknown name
C6_Witness ==
    /\ call.op = "compute_cde"
    /\ Len(call.res.history) = 3
    /\ call.res.history[1].kind = "Roll" /\ Len(call.res.history[1].r) = 2
    /\ call.res.history[2] = Separator("+")
    /\ call.res.history[3].kind = "Roll" /\ Len(call.res.history[3].r) = 1
    /\ Denotes(call.element) = "none"
    /\ call.ret = [ok |-> FALSE, err |-> "Should have only one roll"]

----------------------------------------------------------------------------
(* C10 *)

\* C10: for every operator and all results a, b, c, those with an empty history
\* included, (a op b) op c and a op (b op c) have the same history, and for +
\* and * the same total.
C10_Associative ==
    grp.stage = "done" =>
        /\ grp.left.history = grp.right.history
        /\ grp.op \in {"+", "*"} => grp.left.total = grp.right.total

----------------------------------------------------------------------------
(* C11: add_history appends one sorted entry; histories only grow *)

IsDescending(s) == \A i \in 1..(Len(s) - 1) : s[i] >= s[i + 1]

\* s and t hold the same values the same number of times
SameValues(s, t) ==
    /\ Len(s) = Len(t)
    /\ \A x \in Range(s) \cup Range(t) :
           HowMany(s, LAMBDA y : y = x) = HowMany(t, LAMBDA y : y = x)

IsPrefix(s, t) == Len(s) <= Len(t) /\ SubSeq(t, 1, Len(s)) = s

\* C11: add_history(values, is_fudge) appends exactly one entry (Fudge when
\* is_fudge, else Roll) holding the given values in descending order, leaves
\* the earlier entries alone and sets dirty; compute_total and add_reason
\* leave the history alone; the history before an operation on a result is
\* a prefix of the history after it; and every Roll and Fudge entry of a
\* reachable history is sorted descending.
C11_AppendOnlySorted ==
    /\ [][ /\ call'.op = "add_history" =>
               /\ Len(res'.history) = Len(res.history) + 1
               /\ SubSeq(res'.history, 1, Len(res.history)) = res.history
               /\ res'.history[Len(res'.history)].kind
                      = (IF call'.is_fudge THEN "Fudge" ELSE "Roll")
               /\ IsDescending(res'.history[Len(res'.history)].r)
               /\ SameValues(res'.history[Len(res'.history)].r, call'.history)
               /\ res'.dirty
           /\ call'.op \in {"compute_total", "add_reason"} =>
               res'.history = res.history
           /\ call'.op \notin {"new", "with_total"} =>
               IsPrefix(res.history, res'.history) ]_vars
    /\ [](\A i \in 1..Len(res.history) :
             res.history[i].kind \in {"Roll", "Fudge"} =>
                 IsDescending(res.history[i].r))

\* add_history was handed the unsorted roll [1, 5] on a history that already
\* had an entry, and stored it as [5, 1]
C11_Witness ==
    /\ call.op = "add_history"
    /\ call.history = <<1, 5>>
    /\ Len(res.history) >= 2
    /\ res.history[Len(res.history)].r = <<5, 1>>

----------------------------------------------------------------------------
(* C12: the five tables and the five label arrays tell one story *)

Variants == {"Fire", "Earth", "Metal", "Water", "Wood"}

\* the categories, in the order of the positions of a label array: the
\* element itself, the one it generates, the one generating it, the one it
\* dominates, the one dominating it
Categories == <<"Success", "Lucky", "Ill", "Loksyu", "TinJi">>

\* the elements for which face v is a Success
SuccessFor(v) == {X \in Variants : TableOf(X)[v] = Success}

\* the label an element carries in its own array
OwnLabel(X) == ElementLabels(X)[1]

\* the position of the element whose Success face is v in the given labels
PositionIn(labels, v) ==
    CHOOSE i \in DOMAIN labels :
        \E X \in SuccessFor(v) : labels[i] = OwnLabel(X)

\* how many dice a CdeResult counted in the category of the given position
CountedAt(r, position) ==
    CASE position = 1 -> r.success
      [] position = 2 -> r.lucky
      [] position = 3 -> r.ill
      [] position = 4 -> r.loksyu[1] + r.loksyu[2]
      [] position = 5 -> r.tin_ji

\* C12: in each table Success, Lucky, Ill and TinJi have two faces each and
\* Loksyu two (one Yin, one Yang), faces v and v + 5 sharing a category; each
\* face is the Success of exactly one element X; and in every element E's
\* table the category of face v is the one at the position X holds in E's
\* label array (self, generated, generating, dominated, dominating), which is
\* also the counter compute_cde reports for a roll of that single face.
C12_TablesAgreeWithLabels ==
    /\ \A E \in Variants :
        /\ DOMAIN TableOf(E) = 1..10
        /\ \A i \in DOMAIN Categories :
            HowMany(TableOf(E), LAMBDA o : o.kind = Categories[i]) = 2
        /\ HowMany(TableOf(E), LAMBDA o : o = Loksyu(Yin)) = 1
        /\ HowMany(TableOf(E), LAMBDA o : o = Loksyu(Yang)) = 1
        /\ \A v \in 1..5 : TableOf(E)[v].kind = TableOf(E)[v + 5].kind
        /\ Len(ElementLabels(E)) = 5
        /\ Range(ElementLabels(E)) = {OwnLabel(X) : X \in Variants}
    /\ \A v \in 1..10 : Cardinality(SuccessFor(v)) = 1
    /\ \A E \in Variants, v \in 1..10 :
        TableOf(E)[v].kind = Categories[PositionIn(ElementLabels(E), v)]
    /\ (/\ call.op = "compute_cde"
        /\ call.ret.ok
        /\ Len(call.res.history[1].r) = 1) =>
            LET v == call.res.history[1].r[1]
            IN  /\ call.ret.val.elements = ElementLabels(Denotes(call.element))
                /\ CountedAt(call.ret.val, PositionIn(call.ret.val.elements, v)) = 1

\* the single face 3, the Success face of metal, has been interpreted under
\* fire, which dominates metal: it is counted as a Loksyu and metal is the
\* fourth label
C12_Witness ==
    /\ call.op = "compute_cde"
    /\ call.res.history = <<Roll(<<3>>)>>
    /\ Denotes(call.element) = "Fire"
    /\ call.ret.ok
    /\ call.ret.val.loksyu = <<0, 1>>
    /\ call.ret.val.elements[4] = "metal"

====
